---- MODULE Spec2Model ----
(***************************************************************************)
(* A model of FlightMonitor (src/flight_monitor.py): the polling loop of   *)
(* run(), one cycle of check_flight_price() with the per-key page load,    *)
(* cookie step and selector chain of fetch_flight_data(), parse_price(),   *)
(* the alert decision and send_email().                                    *)
(*                                                                         *)
(* Spec is the polling loop.  KeysSpec is the startup, setup_keys_names()  *)
(* and setup_urls() for every window of dates up to MaxDay, and ParseSpec  *)
(* is parse_price() for every text up to MaxTextLen characters.            *)
(*                                                                         *)
(* A text is a sequence of one-character strings ("7 500 kr" is            *)
(* <<"7"," ","5","0","0"," ","k","r">>), so that the string operations of  *)
(* the code are computed rather than assumed.  Python's None is NoneText   *)
(* for a text and NoPrice for an integer; a local variable that was never  *)
(* assigned is Unbound.                                                    *)
(***************************************************************************)
EXTENDS Integers, Sequences, FiniteSets, TLC

(* ---------------------------------------------------------------------- *)
(* Program constants                                                       *)
(* ---------------------------------------------------------------------- *)
price_threshold == 8000
check_interval == 1800
retry_interval == 60
\* range(3) of the page-load loop
LoadAttempts == 3
\* len(price_selectors)
NumSelectors == 5

(* ---------------------------------------------------------------------- *)
(* Bounds of the model                                                     *)
(* ---------------------------------------------------------------------- *)
\* number of entries of self.urls that a cycle visits
NumKeys == 2
\* number of polling cycles that are started
MaxCycles == 2
\* the dates of dates_range are the days 0 .. MaxDay
MaxDay == 3
\* length of the texts handed to parse_price, over the characters TextChars
MaxTextLen == 3

(* ---------------------------------------------------------------------- *)
(* Values                                                                  *)
(* ---------------------------------------------------------------------- *)
NoneText == <<"None">>
Unbound == <<"unbound">>
NoPrice == -1

\* the keys of self.urls, in insertion order
urls == 1 .. NumKeys

\* texts an element of the rendered page can carry
Text7500 == <<"7", " ", "5", "0", "0", " ", "k", "r">>
Text7200 == <<"k", "r", " ", "7", ",", "2", "0", "0">>
Text9000 == <<"9", "0", "0", "0", " ", "k", "r">>
TextNoMarker == <<"P", "r", "i", "s">>
TextEmpty == << >>
PageTexts == {Text7500, Text7200, Text9000, TextNoMarker, TextEmpty}

\* texts for parse_price on its own: three given ones and every text of up to
\* MaxTextLen characters of TextChars
Text8750 == <<"8", " ", "7", "5", "0", " ", "k", "r">>
Text12300 == <<"k", "r", " ", "1", "2", ",", "3", "0", "0">>
TextNoPrice == <<"n", "o", " ", "p", "r", "i", "c", "e", " ", "h", "e", "r", "e">>
TextChars == {"k", "r", " ", ",", "7", "0", "x"}
ParseTexts ==
    {Text8750, Text12300, TextNoPrice}
        \cup UNION {[1 .. n -> TextChars] : n \in 0 .. MaxTextLen}

Digits == {"0", "1", "2", "3", "4", "5", "6", "7", "8", "9"}

DigitValue(c) ==
    CASE c = "0" -> 0 [] c = "1" -> 1 [] c = "2" -> 2 [] c = "3" -> 3
      [] c = "4" -> 4 [] c = "5" -> 5 [] c = "6" -> 6 [] c = "7" -> 7
      [] c = "8" -> 8 [] c = "9" -> 9

(* ---------------------------------------------------------------------- *)
(* String operations of the code                                           *)
(* ---------------------------------------------------------------------- *)
\* sub in s
Contains(s, sub) ==
    \E i \in 1 .. (Len(s) - Len(sub) + 1) : SubSeq(s, i, i + Len(sub) - 1) = sub

\* s.replace(sub, ""): leftmost non-overlapping occurrences are removed
RECURSIVE Remove(_, _)
Remove(s, sub) ==
    IF Len(s) < Len(sub) THEN s
    ELSE IF SubSeq(s, 1, Len(sub)) = sub
         THEN Remove(SubSeq(s, Len(sub) + 1, Len(s)), sub)
         ELSE <<s[1]>> \o Remove(Tail(s), sub)

\* re.sub(r'[^\d]', '', s)
RECURSIVE KeepDigits(_)
KeepDigits(s) ==
    IF s = << >> THEN << >>
    ELSE IF s[1] \in Digits THEN <<s[1]>> \o KeepDigits(Tail(s))
         ELSE KeepDigits(Tail(s))

\* s.isdigit()
IsDigit(s) == s # << >> /\ \A i \in 1 .. Len(s) : s[i] \in Digits

\* int(s) for a digit string
RECURSIVE ToInt(_)
ToInt(s) ==
    IF s = << >> THEN 0
    ELSE 10 * ToInt(SubSeq(s, 1, Len(s) - 1)) + DigitValue(s[Len(s)])

\* price_clean of parse_price, and a faulty variant without the re.sub
PriceClean_NoFilter(raw_text) ==
    Remove(Remove(Remove(raw_text, <<"k", "r">>), <<" ">>), <<",">>)
PriceClean(raw_text) ==
    KeepDigits(Remove(Remove(Remove(raw_text, <<"k", "r">>), <<" ">>), <<",">>))

\* the amount parse_price appends for a raw text that is not None
ParseOne(raw_text) ==
    LET price_clean == PriceClean(raw_text)
    IN  IF IsDigit(price_clean) THEN ToInt(price_clean) ELSE NoPrice

\* parse_price: entries whose raw text is None are skipped, the others kept in order
RECURSIVE parse_price(_)
parse_price(flight_raw_price) ==
    IF flight_raw_price = << >> THEN << >>
    ELSE IF flight_raw_price[1][2] = NoneText
         THEN parse_price(Tail(flight_raw_price))
         ELSE <<[key |-> flight_raw_price[1][1],
                 amount |-> ParseOne(flight_raw_price[1][2])]>>
              \o parse_price(Tail(flight_raw_price))

(* ---------------------------------------------------------------------- *)
(* setup_keys_names and setup_urls                                         *)
(* ---------------------------------------------------------------------- *)
\* A date is the number of its day; strftime('%Y%m%d') gives a text of fixed
\* width, here two digits.
destination == <<"G", "O", "T", "-", "B", "J", "S">>

DigitChar(n) == <<"0", "1", "2", "3", "4", "5", "6", "7", "8", "9">>[n + 1]

strftime(d) == <<DigitChar(d \div 10), DigitChar(d % 10)>>

\* f"{title}_{dep_date.strftime('%Y%m%d')}_{return_date.strftime('%Y%m%d')}"
KeyName(title, dep_date, return_date) ==
    title \o <<"_">> \o strftime(dep_date) \o <<"_">> \o strftime(return_date)

\* s.split(sep): the pieces between one separator, or end of s, and the next
Split(s, sep) ==
    LET cuts == {0, Len(s) + 1} \cup {i \in 1 .. Len(s) : s[i] = sep}
        cut(n) == CHOOSE c \in cuts : Cardinality({x \in cuts : x < c}) = n
    IN  [n \in 1 .. Cardinality(cuts) - 1 |->
            SubSeq(s, cut(n - 1) + 1, cut(n) - 1)]

\* (return_date - dep_date).days + 1
RangeLength(dep_date, return_date) == (return_date - dep_date) + 1

\* the test of the outer while loop
LongEnough(range_length, shortest_date) == range_length >= shortest_date

\* the test of the inner while loop
InWindow_OneMore(dep_date, return_date, first_date, last_date) ==
    dep_date >= first_date /\ return_date <= last_date + 1
InWindow(dep_date, return_date, first_date, last_date) ==
    dep_date >= first_date /\ return_date <= last_date

\* return_date = dep_date + pd.Timedelta(days=range_length-1)
NextReturnDate_NoMinusOne(dep_date, range_length) == dep_date + range_length
NextReturnDate(dep_date, range_length) == dep_date + (range_length - 1)

\* the entry of self.urls that setup_urls makes of a key: the key and the
\* three fields of the URL
UrlOf(k) ==
    LET f == Split(k, "_")
    IN  [key |-> k, destination |-> f[1], dep_date |-> f[2],
         return_date |-> f[3]]

\* self.urls[key] = url for each key in turn: a dict keeps a key at the
\* place of its first insertion, so the entries are those of the first
\* occurrences, in their order
DictOf(ks) ==
    LET firsts == {i \in 1 .. Len(ks) : \A j \in 1 .. i - 1 : ks[j] # ks[i]}
        nth(n) == CHOOSE i \in firsts : Cardinality({j \in firsts : j <= i}) = n
    IN  [n \in 1 .. Cardinality(firsts) |-> UrlOf(ks[nth(n)])]

(* ---------------------------------------------------------------------- *)
(* The alert decision of check_flight_price                                *)
(* ---------------------------------------------------------------------- *)
HasAmount(p) == p.amount # NoPrice

\* valid_prices = [price for price in flight_prices if price[1] is not None]
valid_prices(flight_prices) == SelectSeq(flight_prices, HasAmount)

\* min(price[1] for price in valid_prices), for a non-empty list
RECURSIVE MinAmount(_)
MinAmount(prices) ==
    IF Len(prices) = 1 THEN prices[1].amount
    ELSE LET m == MinAmount(Tail(prices))
         IN  IF prices[1].amount < m THEN prices[1].amount ELSE m

\* Faulty variants of the decision, each a slip the claims must tell from the
\* code: no hysteresis test, no threshold test, <= for the improvement test
should_send_email_NoHysteresis(cur, best) == cur < price_threshold

should_send_email_NoThreshold(cur, best) == best = NoPrice \/ cur < best

should_send_email_OrEqual(cur, best) ==
    cur < price_threshold /\ (best = NoPrice \/ cur <= best)

\* should_send_email after the nested ifs of lines 301-312
should_send_email(cur, best) ==
    IF cur < price_threshold
    THEN IF best = NoPrice THEN TRUE
         ELSE IF cur < best THEN TRUE
         ELSE FALSE
    ELSE FALSE

\* Faulty variant: the best price is overwritten whenever the price is below
\* the threshold
lowest_after_Overwrite(cur, best) == IF cur < price_threshold THEN cur ELSE best

\* self.lowest_price_list after the nested ifs of lines 301-312
lowest_after(cur, best) ==
    IF cur < price_threshold
    THEN IF best = NoPrice THEN cur
         ELSE IF cur < best THEN cur
         ELSE best
    ELSE best

BelowThreshold(p) == p.amount < price_threshold

\* Faulty variant: the payload is not filtered by the threshold
below_threshold_prices_All(valid) == valid

\* below_threshold_prices = [price for price in valid_prices if price[1] < threshold]
below_threshold_prices(valid) == SelectSeq(valid, BelowThreshold)

\* Faulty variant: the result starts out as success
InitialStatue_True == TRUE

\* statue = False at the top of check_flight_price
InitialStatue == FALSE

\* Faulty variant: a failed send_email does not fail the cycle
statue_after_IgnoreSend(fire, sent_ok) == TRUE

\* statue after lines 314-325
statue_after(fire, sent_ok) ==
    IF fire THEN (IF sent_ok THEN TRUE ELSE InitialStatue) ELSE TRUE

\* Faulty variant: the long interval after every cycle
SleepFor_AlwaysCheck(success) == check_interval

\* the sleep run() chooses from the value check_flight_price returned
SleepFor(success) == IF success THEN check_interval ELSE retry_interval

\* Faulty variant: the selector loop never breaks
BreakCondition_Never(text) == FALSE

\* if raw_price and "kr" in raw_price: break
BreakCondition(text) == text # << >> /\ Contains(text, <<"k", "r">>)

\* for attempt in range(3): another driver.get is made after a failed one
MoreAttempts(done) == done < LoadAttempts

(* ---------------------------------------------------------------------- *)
(* State                                                                   *)
(* ---------------------------------------------------------------------- *)
VARIABLES
    lowest_price_list,  \* self.lowest_price_list
    last_price,         \* self.last_price
    pc,                 \* where run() is: "run", "get", "cookie", "select",
                        \* "record", "evaluate", "sleep", "stopped"
    driver,             \* TRUE while the cycle's Chrome driver is open
    key,                \* the key of self.urls the for loop is at
    attempt,            \* driver.get calls made for this key so far, while
                        \* the attempts loop runs (0 once it is left)
    sel,                \* index into price_selectors
    raw_price,          \* the local raw_price of fetch_flight_data
    flight_data,        \* the local flight_data: <<key, text or NoneText>>
    statue,             \* the value check_flight_price returned
    sleeping,           \* the argument of the time.sleep run() is in, else 0
    cycle,              \* number of calls of check_flight_price so far
    loaded,             \* history: how the attempts loop of this key ended:
                        \* "ok" by break, "failed" by running out, else "no"
    tried,              \* history: selectors waited for, for this key
    hit,                \* history: first selector of this key that located
                        \* a text containing "kr", as <<index, text>>
    snapshot,           \* history: debug_page_<key>.html written for this key
    assigned,           \* history: raw_price was assigned while this key was
                        \* processed
    ev,                 \* history: what the cycle's evaluation did
    alerts,             \* history: current_lowest_price of every send_email call
    delivered,          \* history: the amounts of the payloads for which
                        \* send_email returned True
    browsers,           \* number of Chrome drivers that were started and not quit
    kg,                 \* setup_keys_names() and setup_urls() at startup
    px                  \* a text and what parse_price makes of it

vars == <<lowest_price_list, last_price, pc, driver, key, attempt, sel,
          raw_price, flight_data, statue, sleeping, cycle, loaded, tried, hit,
          snapshot, assigned, ev, alerts, delivered, browsers, kg, px>>

fields == <<lowest_price_list, last_price>>
locals == <<key, attempt, sel, raw_price, flight_data>>
keyhist == <<loaded, tried, hit, snapshot, assigned>>
aside == <<kg, px>>

NoHit == << >>

\* the evaluation record of a cycle in which nothing has been evaluated yet
EvNone ==
    [raised |-> FALSE, evaluated |-> FALSE, cur |-> NoPrice,
     best_before |-> NoPrice, last_before |-> NoPrice, fire |-> FALSE,
     dispatched |-> FALSE, delivered |-> FALSE, payload |-> << >>]

\* startup is over and run() has been entered; the actions of the cycle take
\* the number of keys from NumKeys and leave kg alone
StartupOver ==
    [pc |-> "run", first_date |-> 0, last_date |-> 0, shortest_date |-> 1,
     range_length |-> 0, dep_date |-> 0, return_date |-> 0,
     keys |-> <<KeyName(destination, 0, 0)>>,
     urls |-> DictOf(<<KeyName(destination, 0, 0)>>)]

\* parse_price is not being looked at on its own
NoParse == [raw |-> << >>, prices |-> << >>, done |-> FALSE]

\* the fields of a new FlightMonitor and the locals of a cycle not yet begun
CycleInit ==
    /\ lowest_price_list = NoPrice
    /\ last_price = NoPrice
    /\ pc = "run"
    /\ driver = FALSE
    /\ key = 1
    /\ attempt = 0
    /\ sel = 1
    /\ raw_price = Unbound
    /\ flight_data = << >>
    /\ statue = FALSE
    /\ sleeping = 0
    /\ cycle = 0
    /\ loaded = "no"
    /\ tried = << >>
    /\ hit = NoHit
    /\ snapshot = FALSE
    /\ assigned = FALSE
    /\ ev = EvNone
    /\ alerts = << >>
    /\ delivered = {}
    /\ browsers = 0

Init ==
    /\ CycleInit
    /\ kg = StartupOver
    /\ px = NoParse

(* ---------------------------------------------------------------------- *)
(* run() and the start of check_flight_price()                             *)
(* ---------------------------------------------------------------------- *)
\* the finally clause of check_flight_price: if driver: driver.quit()
driver_quit(n) == IF driver THEN n - 1 ELSE n

\* check_flight_price returns st: the finally clause quits the driver, and
\* run() goes to sleep for the interval that st selects
Return(st) ==
    /\ statue' = st
    /\ sleeping' = SleepFor(st)
    /\ driver' = FALSE
    /\ browsers' = driver_quit(browsers)
    /\ pc' = "sleep"

\* run() calls check_flight_price, setup_driver returns a driver and
\* fetch_flight_data starts its loop over self.urls
StartCycle ==
    /\ pc = "run"
    /\ cycle < MaxCycles
    /\ cycle' = cycle + 1
    /\ driver' = TRUE
    /\ pc' = IF urls = {} THEN "evaluate" ELSE "get"
    /\ key' = 1
    /\ attempt' = 0
    /\ sel' = 1
    /\ raw_price' = Unbound
    /\ flight_data' = << >>
    /\ ev' = EvNone
    /\ statue' = InitialStatue
    /\ browsers' = browsers + 1
    /\ UNCHANGED <<aside, delivered, fields, sleeping, keyhist, alerts>>

\* run() calls check_flight_price and webdriver.Chrome raises in
\* setup_driver: the except clause of check_flight_price returns statue
SetupDriverRaises ==
    /\ pc = "run"
    /\ cycle < MaxCycles
    /\ cycle' = cycle + 1
    /\ ev' = [EvNone EXCEPT !.raised = TRUE,
                            !.best_before = lowest_price_list,
                            !.last_before = last_price]
    /\ Return(InitialStatue)
    /\ UNCHANGED <<aside, delivered, fields, locals, keyhist, alerts>>

\* webdriver.Chrome returns and one of execute_script, execute_cdp_cmd,
\* implicitly_wait raises: setup_driver logs and raises again without a quit,
\* the local driver of check_flight_price is still None, so that its finally
\* clause quits nothing
DriverSetupRaises ==
    /\ pc = "run"
    /\ cycle < MaxCycles
    /\ cycle' = cycle + 1
    /\ ev' = [EvNone EXCEPT !.raised = TRUE,
                            !.best_before = lowest_price_list,
                            !.last_before = last_price]
    /\ statue' = InitialStatue
    /\ sleeping' = SleepFor(InitialStatue)
    /\ driver' = FALSE
    /\ browsers' = browsers + 1
    /\ pc' = "sleep"
    /\ UNCHANGED <<aside, delivered, fields, locals, keyhist, alerts>>

\* time.sleep returns and the while loop of run() starts over
SleepReturns ==
    /\ pc = "sleep"
    /\ pc' = "run"
    /\ sleeping' = 0
    /\ key' = 1
    /\ attempt' = 0
    /\ sel' = 1
    /\ raw_price' = Unbound
    /\ flight_data' = << >>
    /\ loaded' = "no"
    /\ tried' = << >>
    /\ hit' = NoHit
    /\ snapshot' = FALSE
    /\ assigned' = FALSE
    /\ ev' = EvNone
    /\ UNCHANGED <<aside, delivered, browsers, fields, driver, statue, cycle,
                   alerts>>

\* the operator's KeyboardInterrupt: no except Exception clause catches it, the
\* finally clause of check_flight_price quits the driver, run() breaks
KeyboardInterrupt ==
    /\ pc # "stopped"
    /\ pc' = "stopped"
    /\ driver' = FALSE
    /\ sleeping' = 0
    /\ key' = 1
    /\ attempt' = 0
    /\ sel' = 1
    /\ raw_price' = Unbound
    /\ flight_data' = << >>
    /\ loaded' = "no"
    /\ tried' = << >>
    /\ hit' = NoHit
    /\ snapshot' = FALSE
    /\ assigned' = FALSE
    /\ ev' = EvNone
    /\ browsers' = driver_quit(browsers)
    /\ UNCHANGED <<aside, delivered, fields, statue, cycle, alerts>>

(* ---------------------------------------------------------------------- *)
(* fetch_flight_data(): one key                                            *)
(* ---------------------------------------------------------------------- *)
\* the for loop over self.urls goes on after flight_data.append(entry)
NextKey(entry) ==
    /\ flight_data' = Append(flight_data, entry)
    /\ attempt' = 0
    /\ sel' = 1
    /\ IF key = NumKeys
       THEN pc' = "evaluate" /\ key' = key
       ELSE pc' = "get" /\ key' = key + 1

\* the histories of a key start over with its first driver.get
Fresh(h, empty) == IF attempt = 0 THEN empty ELSE h

\* driver.get(url) returns: break
PageLoads ==
    /\ pc = "get"
    /\ loaded' = "ok"
    /\ tried' = Fresh(tried, << >>)
    /\ hit' = Fresh(hit, NoHit)
    /\ snapshot' = Fresh(snapshot, FALSE)
    /\ assigned' = Fresh(assigned, FALSE)
    /\ attempt' = 0
    /\ pc' = "cookie"
    /\ UNCHANGED <<aside, delivered, browsers, fields, driver, key, sel,
                   raw_price, flight_data, statue, sleeping, cycle, ev, alerts>>

\* driver.get(url) raises: the next attempt, or the end of the attempts loop,
\* after which the code goes on with the cookie step all the same
PageLoadRaises ==
    /\ pc = "get"
    /\ tried' = Fresh(tried, << >>)
    /\ hit' = Fresh(hit, NoHit)
    /\ snapshot' = Fresh(snapshot, FALSE)
    /\ assigned' = Fresh(assigned, FALSE)
    /\ IF MoreAttempts(attempt + 1)
       THEN pc' = "get" /\ attempt' = attempt + 1 /\ loaded' = "no"
       ELSE pc' = "cookie" /\ attempt' = 0 /\ loaded' = "failed"
    /\ UNCHANGED <<aside, delivered, browsers, fields, driver, key, sel,
                   raw_price, flight_data, statue, sleeping, cycle, ev, alerts>>

\* the cookie button is absent, or it is found and clicked
CookieConsent ==
    /\ pc = "cookie"
    /\ pc' = "select"
    /\ sel' = 1
    /\ UNCHANGED <<aside, delivered, browsers, fields, driver, key, attempt,
                   raw_price, flight_data, statue, sleeping, cycle, keyhist,
                   ev, alerts>>

\* find_element or click raises something that is no TimeoutException: the
\* except clause of the key appends (key, None)
CookieRaises ==
    /\ pc = "cookie"
    /\ NextKey(<<key, NoneText>>)
    /\ UNCHANGED <<aside, delivered, browsers, fields, driver, raw_price,
                   statue, sleeping, cycle, keyhist, ev, alerts>>

\* the selector loop goes to its next selector, or ends
NextSelector ==
    IF sel = NumSelectors THEN pc' = "record" /\ sel' = sel
    ELSE pc' = "select" /\ sel' = sel + 1

\* wait.until raises TimeoutException: continue
SelectorTimesOut ==
    /\ pc = "select"
    /\ tried' = Append(tried, sel)
    /\ NextSelector
    /\ UNCHANGED <<aside, delivered, browsers, fields, driver, key, attempt,
                   raw_price, flight_data, statue, sleeping, cycle, loaded,
                   hit, snapshot, assigned, ev, alerts>>

\* wait.until returns an element with text t
SelectorLocates ==
    /\ pc = "select"
    /\ \E t \in PageTexts :
        /\ raw_price' = t
        /\ assigned' = TRUE
        /\ tried' = Append(tried, sel)
        /\ hit' = IF hit = NoHit /\ Contains(t, <<"k", "r">>)
                  THEN <<sel, t>> ELSE hit
        /\ IF BreakCondition(t) THEN pc' = "record" /\ sel' = sel
           ELSE NextSelector
    /\ UNCHANGED <<aside, delivered, browsers, fields, driver, key, attempt,
                   flight_data, statue, sleeping, cycle, loaded, snapshot, ev,
                   alerts>>

\* wait.until or .text raises something that is no TimeoutException: the
\* except clause of the key appends (key, None)
SelectorRaises ==
    /\ pc = "select"
    /\ tried' = Append(tried, sel)
    /\ NextKey(<<key, NoneText>>)
    /\ UNCHANGED <<aside, delivered, browsers, fields, driver, raw_price,
                   statue, sleeping, cycle, loaded, hit, snapshot, assigned,
                   ev, alerts>>

\* if raw_price: flight_data.append((key, raw_price))
AppendPrice ==
    /\ pc = "record"
    /\ raw_price # Unbound
    /\ raw_price # << >>
    /\ NextKey(<<key, raw_price>>)
    /\ UNCHANGED <<aside, delivered, browsers, fields, driver, raw_price,
                   statue, sleeping, cycle, keyhist, ev, alerts>>

\* else: flight_data.append((key, None)) and the page source is written
AppendNoneAndSave ==
    /\ pc = "record"
    /\ raw_price = << >>
    /\ snapshot' = TRUE
    /\ NextKey(<<key, NoneText>>)
    /\ UNCHANGED <<aside, delivered, browsers, fields, driver, raw_price,
                   statue, sleeping, cycle, loaded, tried, hit, assigned, ev,
                   alerts>>

\* else: flight_data.append((key, None)), and then open, driver.page_source
\* or write raises: the except clause of the key appends (key, None) again
SaveRaises ==
    /\ pc = "record"
    /\ raw_price = << >>
    /\ flight_data' = flight_data \o <<(<<key, NoneText>>), (<<key, NoneText>>)>>
    /\ attempt' = 0
    /\ sel' = 1
    /\ IF key = NumKeys
       THEN pc' = "evaluate" /\ key' = key
       ELSE pc' = "get" /\ key' = key + 1
    /\ UNCHANGED <<aside, delivered, browsers, fields, driver, raw_price,
                   statue, sleeping, cycle, keyhist, ev, alerts>>

\* raw_price was never assigned: reading it raises UnboundLocalError and the
\* except clause of the key appends (key, None)
RawPriceUnbound ==
    /\ pc = "record"
    /\ raw_price = Unbound
    /\ NextKey(<<key, NoneText>>)
    /\ UNCHANGED <<aside, delivered, browsers, fields, driver, raw_price,
                   statue, sleeping, cycle, keyhist, ev, alerts>>

(* ---------------------------------------------------------------------- *)
(* check_flight_price() after fetch_flight_data() returned                 *)
(* ---------------------------------------------------------------------- *)
\* fetch_flight_data has returned: its locals are gone, but for flight_data,
\* which check_flight_price holds as flight_raw_price
FetchReturned ==
    /\ key' = 1
    /\ attempt' = 0
    /\ sel' = 1
    /\ raw_price' = Unbound
    /\ loaded' = "no"
    /\ tried' = << >>
    /\ hit' = NoHit
    /\ snapshot' = FALSE
    /\ assigned' = FALSE
    /\ UNCHANGED flight_data

\* flight_raw_price is None (flight_data is empty), or there is no valid price:
\* return statue
NoValidPrices ==
    /\ pc = "evaluate"
    /\ \/ flight_data = << >>
       \/ valid_prices(parse_price(flight_data)) = << >>
    /\ ev' = [EvNone EXCEPT !.best_before = lowest_price_list,
                            !.last_before = last_price]
    /\ Return(InitialStatue)
    /\ FetchReturned
    /\ UNCHANGED <<aside, delivered, fields, cycle, alerts>>

\* lines 294-327 with send_email returning sent_ok when it is called
Evaluated(fire, sent_ok) ==
    LET valid == valid_prices(parse_price(flight_data))
        cur == MinAmount(valid)
    IN  /\ pc = "evaluate"
        /\ flight_data # << >>
        /\ valid # << >>
        /\ should_send_email(cur, lowest_price_list) = fire
        /\ lowest_price_list' = lowest_after(cur, lowest_price_list)
        /\ last_price' = cur
        /\ alerts' = IF fire THEN Append(alerts, cur) ELSE alerts
        /\ delivered' = IF fire /\ sent_ok
                        THEN LET sent == below_threshold_prices(valid)
                             IN  delivered \cup
                                 {sent[i].amount : i \in 1 .. Len(sent)}
                        ELSE delivered
        /\ ev' = [raised |-> FALSE, evaluated |-> TRUE, cur |-> cur,
                  best_before |-> lowest_price_list,
                  last_before |-> last_price, fire |-> fire,
                  dispatched |-> fire, delivered |-> fire /\ sent_ok,
                  payload |-> IF fire THEN below_threshold_prices(valid)
                              ELSE << >>]
        /\ Return(statue_after(fire, sent_ok))
        /\ FetchReturned
        /\ UNCHANGED <<aside, cycle>>

\* should_send_email is False
NoAlert == pc = "evaluate" /\ Evaluated(FALSE, FALSE)

\* should_send_email is True and send_email returns True
AlertSent == pc = "evaluate" /\ Evaluated(TRUE, TRUE)

\* should_send_email is True and send_email returns False
AlertNotSent == pc = "evaluate" /\ Evaluated(TRUE, FALSE)

Next ==
    \/ StartCycle
    \/ SetupDriverRaises
    \/ DriverSetupRaises
    \/ SleepReturns
    \/ KeyboardInterrupt
    \/ PageLoads
    \/ PageLoadRaises
    \/ CookieConsent
    \/ CookieRaises
    \/ SelectorTimesOut
    \/ SelectorLocates
    \/ SelectorRaises
    \/ AppendPrice
    \/ AppendNoneAndSave
    \/ SaveRaises
    \/ RawPriceUnbound
    \/ NoValidPrices
    \/ NoAlert
    \/ AlertSent
    \/ AlertNotSent

Spec == Init /\ [][Next]_vars

(* ---------------------------------------------------------------------- *)
(* Startup: FlightMonitor() builds self.urls, then run() is entered        *)
(* ---------------------------------------------------------------------- *)
cyclevars == <<lowest_price_list, last_price, pc, driver, key, attempt, sel,
               raw_price, flight_data, statue, sleeping, cycle, loaded, tried,
               hit, snapshot, assigned, ev, alerts, delivered, browsers>>

Days == 0 .. MaxDay

\* lines 63-69 for dates_range = [first, last] and shortest_date = shortest
KeysStart(first, last, shortest) ==
    [pc |-> "outer", first_date |-> first, last_date |-> last,
     shortest_date |-> shortest, range_length |-> RangeLength(first, last),
     dep_date |-> first, return_date |-> last, keys |-> << >>,
     urls |-> << >>]

KeysInit ==
    /\ CycleInit
    /\ px = NoParse
    /\ \E first \in Days, last \in Days, shortest \in 1 .. MaxDay + 2 :
          kg = KeysStart(first, last, shortest)

\* while range_length >= self.shortest_date: the body is entered
OuterEnter ==
    /\ kg.pc = "outer"
    /\ LongEnough(kg.range_length, kg.shortest_date)
    /\ kg' = [kg EXCEPT !.pc = "inner"]
    /\ UNCHANGED <<cyclevars, px>>

\* the outer loop ends: return keys, to setup_urls
ReturnKeys ==
    /\ kg.pc = "outer"
    /\ ~LongEnough(kg.range_length, kg.shortest_date)
    /\ kg' = [kg EXCEPT !.pc = "urls"]
    /\ UNCHANGED <<cyclevars, px>>

\* the body of the inner while loop
AppendKey ==
    /\ kg.pc = "inner"
    /\ InWindow(kg.dep_date, kg.return_date, kg.first_date, kg.last_date)
    /\ kg' = [kg EXCEPT
                !.keys = Append(@, KeyName(destination, kg.dep_date,
                                           kg.return_date)),
                !.dep_date = @ + 1,
                !.return_date = @ + 1]
    /\ UNCHANGED <<cyclevars, px>>

\* the inner loop ends: lines 79-81
NextLength ==
    /\ kg.pc = "inner"
    /\ ~InWindow(kg.dep_date, kg.return_date, kg.first_date, kg.last_date)
    /\ kg' = [kg EXCEPT
                !.pc = "outer",
                !.range_length = @ - 1,
                !.dep_date = kg.first_date,
                !.return_date = NextReturnDate(kg.first_date,
                                               kg.range_length - 1)]
    /\ UNCHANGED <<cyclevars, px>>

\* setup_urls fills self.urls from the keys
SetupUrls ==
    /\ kg.pc = "urls"
    /\ kg' = [kg EXCEPT !.pc = "built", !.urls = DictOf(kg.keys)]
    /\ UNCHANGED <<cyclevars, px>>

\* monitor.run(): the polling loop is entered with self.urls as it is
RunEntered ==
    /\ kg.pc = "built"
    /\ kg' = [kg EXCEPT !.pc = "run"]
    /\ UNCHANGED <<cyclevars, px>>

KeysNext ==
    \/ OuterEnter
    \/ ReturnKeys
    \/ AppendKey
    \/ NextLength
    \/ SetupUrls
    \/ RunEntered

KeysSpec == KeysInit /\ [][KeysNext]_vars

\* the statements of __init__ and of the main block are executed one after
\* the other: a step that can be taken is taken
KeysFairSpec == KeysSpec /\ WF_vars(KeysNext)

(* ---------------------------------------------------------------------- *)
(* parse_price on its own                                                  *)
(* ---------------------------------------------------------------------- *)
\* flight_raw_price with the text t for two keys and None for a third
ParseInit ==
    /\ CycleInit
    /\ kg = StartupOver
    /\ \E t \in ParseTexts :
          px = [raw |-> <<(<<1, t>>), (<<2, NoneText>>), (<<3, t>>)>>,
                prices |-> << >>, done |-> FALSE]

\* flight_prices = self.parse_price(flight_raw_price)
ParsePrices ==
    /\ ~px.done
    /\ px' = [px EXCEPT !.prices = parse_price(px.raw), !.done = TRUE]
    /\ UNCHANGED <<cyclevars, kg>>

ParseNext == ParsePrices

ParseSpec == ParseInit /\ [][ParseNext]_vars

(* ---------------------------------------------------------------------- *)
(* What the claims speak about, read off the state                         *)
(* ---------------------------------------------------------------------- *)
\* the observations of the cycle that carry an amount
ValidObservations ==
    {o \in {[key |-> flight_data[i][1], amount |-> ParseOne(flight_data[i][2])] :
              i \in {j \in 1 .. Len(flight_data) : flight_data[j][2] # NoneText}} :
        o.amount # NoPrice}

\* the lowest amount among them
CurrentLowest ==
    LET amounts == {o.amount : o \in ValidObservations}
    IN  CHOOSE a \in amounts : \A b \in amounts : a <= b

\* the cycle is over and run() is in its sleep
CycleOver == pc = "sleep"

\* an observation was appended for a key and nothing was done since
JustRecorded ==
    /\ flight_data # << >>
    /\ \/ pc = "get" /\ attempt = 0
       \/ pc = "evaluate"

\* the key that was processed then, and the entry appended last for it
RecordedKey == IF pc = "evaluate" THEN key ELSE key - 1
Recorded == flight_data[Len(flight_data)]

AllLoadsFailed == loaded = "failed"

(* ---------------------------------------------------------------------- *)
(* C1                                                                      *)
(* ---------------------------------------------------------------------- *)
\* C1: in every cycle with at least one valid price the alert fires exactly
\* when currentLowest < threshold and bestPriceEverAlerted is unset or above
\* currentLowest, and when it fires bestPriceEverAlerted becomes currentLowest.
C1_AlertDecision ==
    CycleOver /\ ValidObservations # {} =>
        LET lowest == CurrentLowest
        IN  /\ ev.evaluated
            /\ ev.cur = lowest
            /\ ev.fire <=> /\ lowest < price_threshold
                           /\ \/ ev.best_before = NoPrice
                              \/ lowest < ev.best_before
            /\ ev.fire => lowest_price_list = lowest

\* prior 7500, lowest price 7200: fires and sets 7200
C1_Witness ==
    /\ CycleOver
    /\ ev.fire
    /\ ev.best_before = 7500
    /\ CurrentLowest = 7200
    /\ lowest_price_list = 7200

(* ---------------------------------------------------------------------- *)
(* C2                                                                      *)
(* ---------------------------------------------------------------------- *)
\* C2: bestPriceEverAlerted, once set, never increases and is never unset, and
\* it changes only in a cycle whose alert decision is fire.
C2_BestMonotone ==
    [][lowest_price_list' # lowest_price_list =>
          /\ ev'.fire
          /\ lowest_price_list' # NoPrice
          /\ lowest_price_list # NoPrice => lowest_price_list' < lowest_price_list
      ]_vars

\* a cycle below the threshold that is no improvement leaves 7200 in place
C2_Witness ==
    /\ CycleOver
    /\ ev.evaluated
    /\ ~ev.fire
    /\ ev.best_before = 7200
    /\ CurrentLowest = 7500
    /\ lowest_price_list = 7200

(* ---------------------------------------------------------------------- *)
(* C3                                                                      *)
(* ---------------------------------------------------------------------- *)
\* C3: no notification is dispatched in a cycle whose currentLowest is at or
\* above the threshold, whatever the earlier cycles did.
C3_ThresholdGate ==
    CycleOver /\ ValidObservations # {} /\ CurrentLowest >= price_threshold =>
        /\ ~ev.dispatched
        /\ ev.payload = << >>

\* 9000 after an alert on 7500: nothing is dispatched
C3_Witness ==
    /\ CycleOver
    /\ ValidObservations # {}
    /\ CurrentLowest = 9000
    /\ ev.best_before = 7500
    /\ ~ev.dispatched

(* ---------------------------------------------------------------------- *)
(* C4                                                                      *)
(* ---------------------------------------------------------------------- *)
\* C4: the lowest prices of successive alerts are strictly decreasing: no
\* notification is dispatched for a currentLowest at or above that of a cycle
\* that already produced an alert.
C4_AlertsDecrease ==
    \A i, j \in 1 .. Len(alerts) : i < j => alerts[j] < alerts[i]

\* two alerts, the second one in a later cycle than the first
C4_Witness ==
    /\ Len(alerts) = 2
    /\ alerts[1] = 7500
    /\ alerts[2] = 7200

(* ---------------------------------------------------------------------- *)
(* C5                                                                      *)
(* ---------------------------------------------------------------------- *)
\* C5: when the alert fires the payload handed to the notifier is exactly the
\* cycle's valid observations below the threshold, is not empty and holds an
\* observation at currentLowest; when it does not fire nothing is dispatched.
C5_Payload ==
    CycleOver =>
        IF ev.fire
        THEN LET below == {o \in ValidObservations : o.amount < price_threshold}
             IN  /\ ev.dispatched
                 /\ {ev.payload[i] : i \in 1 .. Len(ev.payload)} = below
                 /\ Len(ev.payload) = Cardinality(below)
                 /\ ev.payload # << >>
                 /\ \E o \in below :
                        /\ \A q \in below : o.amount <= q.amount
                        /\ o.amount = ev.cur
                        /\ o.amount = CurrentLowest
        ELSE /\ ~ev.dispatched
             /\ ev.payload = << >>

\* threshold 8000, observations 7500 and 9000: the payload is the 7500 one
C5_Witness ==
    /\ CycleOver
    /\ ev.fire
    /\ flight_data = <<<<1, Text7500>>, <<2, Text9000>>>>
    /\ ev.payload = <<[key |-> 1, amount |-> 7500]>>

(* ---------------------------------------------------------------------- *)
(* C6                                                                      *)
(* ---------------------------------------------------------------------- *)
\* C6: a cycle in which every observation is null or unparseable is reported
\* as failed, dispatches nothing and leaves bestPriceEverAlerted and
\* lastObservedLowest as they were before the cycle.
C6_NoValidPrices ==
    CycleOver /\ flight_data # << >> /\ ValidObservations = {} =>
        /\ statue = FALSE
        /\ ~ev.dispatched
        /\ lowest_price_list = ev.best_before
        /\ last_price = ev.last_before

\* after an alert on 7500, a cycle of a null and an unparseable observation
C6_Witness ==
    /\ CycleOver
    /\ flight_data = <<<<1, NoneText>>, <<2, TextNoMarker>>>>
    /\ lowest_price_list = 7500
    /\ last_price = 7500
    /\ statue = FALSE

(* ---------------------------------------------------------------------- *)
(* C7                                                                      *)
(* ---------------------------------------------------------------------- *)
\* C7: after every cycle run() sleeps check_interval if the cycle succeeded
\* (valid prices were evaluated and no alert was due or it was delivered) and
\* retry_interval if it failed (no driver, no valid price, or the dispatch
\* failed); a failed dispatch always makes the cycle a failure.
C7_SleepInterval ==
    CycleOver =>
        LET anyvalid == ValidObservations # {}
            succeeded == /\ ~ev.raised
                         /\ anyvalid
                         /\ ~ev.dispatched \/ ev.delivered
        IN  /\ ev.evaluated <=> anyvalid
            /\ ev.delivered => ev.dispatched
            /\ succeeded => statue = TRUE /\ sleeping = check_interval
            /\ ~succeeded => statue = FALSE /\ sleeping = retry_interval

\* valid prices, an alert that send_email failed to deliver: the short sleep
C7_Witness ==
    /\ CycleOver
    /\ ValidObservations # {}
    /\ ev.dispatched
    /\ ~ev.delivered
    /\ sleeping = retry_interval

C9_LoadAttempts ==
    /\ pc = "get" => attempt < LoadAttempts
    /\ pc = "get" /\ attempt > 0 => loaded = "no"
    /\ AllLoadsFailed =>
          /\ tried = << >>
          /\ JustRecorded => flight_data[Len(flight_data)][2] = NoneText

(* ---------------------------------------------------------------------- *)
(* C10                                                                     *)
(* ---------------------------------------------------------------------- *)
\* C10: the selectors are tried in list order, the loop stops at the first one
\* that locates a text containing "kr", no later one is tried, and that text
\* is what is recorded for the key.
C10_FirstMatchWins ==
    /\ \A i \in 1 .. Len(tried) : tried[i] = i
    /\ hit # NoHit =>
          /\ Len(tried) = hit[1]
          /\ pc # "select"
          /\ raw_price = hit[2]
          /\ JustRecorded =>
                Recorded = <<RecordedKey, hit[2]>>

\* the first selector times out or finds no marker, the second one finds
\* "7 500 kr": it is recorded and the third selector is not tried
C10_Witness ==
    /\ JustRecorded
    /\ hit = <<2, Text7500>>
    /\ tried = <<1, 2>>
    /\ Recorded = <<RecordedKey, Text7500>>

(* ---------------------------------------------------------------------- *)
(* C11                                                                     *)
(* ---------------------------------------------------------------------- *)
\* C11: when no selector of a key locates a text containing "kr" (each one
\* times out or finds a text without it), the text recorded for the key is
\* null.
C11_NoMarkerNoText ==
    JustRecorded /\ hit = NoHit => Recorded[2] = NoneText

(* ---------------------------------------------------------------------- *)
(* C12                                                                     *)
(* ---------------------------------------------------------------------- *)
\* C12: when the selector loop of a key has ended, the page snapshot of the
\* key is written if and only if no selector located a text containing "kr",
\* the first key of the cycle included.
C12_SnapshotOnFailure ==
    [][pc = "record" /\ pc' # "stopped" => (snapshot' <=> hit = NoHit)]_vars

(* ---------------------------------------------------------------------- *)
(* C13                                                                     *)
(* ---------------------------------------------------------------------- *)
\* the dates that a key names
DepOf(k) == ToInt(Split(k, "_")[2])
RetOf(k) == ToInt(Split(k, "_")[3])

WindowLength == (kg.last_date - kg.first_date) + 1

ValidConfig ==
    /\ kg.first_date <= kg.last_date
    /\ 1 <= kg.shortest_date
    /\ kg.shortest_date <= WindowLength

\* setup_keys_names has returned
KeysReturned == kg.pc \in {"urls", "built", "run"}

\* C13: for a window with first_date <= last_date and 1 <= shortest_date <=
\* length of the window, every key that is generated, and every entry of
\* self.urls, has departure <= return, a trip of at least shortest_date days
\* and both dates inside the window.
C13_KeysValid ==
    ValidConfig =>
        /\ \A i \in 1 .. Len(kg.keys) :
              LET d == DepOf(kg.keys[i])
                  r == RetOf(kg.keys[i])
              IN  /\ d <= r
                  /\ (r - d) + 1 >= kg.shortest_date
                  /\ kg.first_date <= d
                  /\ r <= kg.last_date
        /\ \A i \in 1 .. Len(kg.urls) :
              LET d == ToInt(kg.urls[i].dep_date)
                  r == ToInt(kg.urls[i].return_date)
              IN  /\ d <= r
                  /\ (r - d) + 1 >= kg.shortest_date
                  /\ kg.first_date <= d
                  /\ r <= kg.last_date

\* the window 0 .. 2 with trips of at least 2 days: three entries
C13_Witness ==
    /\ kg.pc = "run"
    /\ kg.first_date = 0 /\ kg.last_date = 2 /\ kg.shortest_date = 2
    /\ Len(kg.urls) = 3
    /\ kg.urls[3].dep_date = <<"0", "1">>
    /\ kg.urls[3].return_date = <<"0", "2">>

(* ---------------------------------------------------------------------- *)
(* C14                                                                     *)
(* ---------------------------------------------------------------------- *)
\* the keys as pairs of dates, in the order of generation
KeyPairs == [i \in 1 .. Len(kg.keys) |-> <<DepOf(kg.keys[i]), RetOf(kg.keys[i])>>]

\* the pairs of the window whose trip has at least shortest_date days
WindowPairs ==
    {p \in (kg.first_date .. kg.last_date) \X (kg.first_date .. kg.last_date) :
        (p[2] - p[1]) + 1 >= kg.shortest_date}

\* what setup_keys_names returned holds every pair of WindowPairs once, the
\* longer trips first and, among trips of one length, the earlier departure
\* first, and self.urls has these keys in this order
ExactlyOnceInOrder ==
    KeysReturned =>
        LET pairs == KeyPairs
        IN  /\ \A i, j \in 1 .. Len(pairs) : i < j => pairs[i] # pairs[j]
            /\ {pairs[i] : i \in 1 .. Len(pairs)} = WindowPairs
            /\ \A i, j \in 1 .. Len(pairs) : i < j =>
                  LET li == pairs[i][2] - pairs[i][1]
                      lj == pairs[j][2] - pairs[j][1]
                  IN  li > lj \/ (li = lj /\ pairs[i][1] < pairs[j][1])
            /\ kg.pc \in {"built", "run"} =>
                  [i \in 1 .. Len(kg.urls) |-> kg.urls[i].key] = kg.keys

RunReached == kg.pc = "run"

\* C14: key generation terminates, and what it returns holds every pair of
\* the window with a trip of shortest_date to window-length days exactly once,
\* the longer trips first and, among trips of one length, the earlier
\* departure first.
C14_KeysComplete == []ExactlyOnceInOrder /\ <>RunReached

\* the window 0 .. 2 with trips of at least 1 day: 1 + 2 + 3 keys
C14_Witness ==
    /\ kg.pc = "run"
    /\ KeyPairs = <<(<<0, 2>>), (<<0, 1>>), (<<1, 2>>),
                    (<<0, 0>>), (<<1, 1>>), (<<2, 2>>)>>

(* ---------------------------------------------------------------------- *)
(* C15                                                                     *)
(* ---------------------------------------------------------------------- *)
\* C15: when shortest_date exceeds the length of the window, or first_date
\* is after last_date, startup fails with a configuration error: self.urls is
\* never built from such a window, and run() is never entered with an empty
\* self.urls.
C15_ConfigError ==
    kg.pc = "run" =>
        /\ kg.first_date <= kg.last_date
        /\ kg.shortest_date <= WindowLength
        /\ kg.urls # << >>

(* ---------------------------------------------------------------------- *)
(* C16                                                                     *)
(* ---------------------------------------------------------------------- *)
IsDigitChar(c) == c \in Digits

\* the number that digits name, read from the left
RECURSIVE Horner(_, _)
Horner(ds, acc) ==
    IF ds = << >> THEN acc
    ELSE Horner(Tail(ds), 10 * acc + DigitValue(ds[1]))

\* the integer of the digit characters of t in their order, null without one
DigitsAmount(t) ==
    LET ds == SelectSeq(t, IsDigitChar)
    IN  IF ds = << >> THEN NoPrice ELSE Horner(ds, 0)

\* C16: for every raw text parse_price gives the non-negative integer that
\* the digit characters of the text form in their order, and null when the
\* text has no digit, wherever "kr", spaces and commas stand ("8 750 kr" is
\* 8750, "kr 12,300" is 12300, "no price here" is null); the same text gives
\* the same result.
C16_Normalization ==
    px.done =>
        LET t == px.raw[1][2]
            amount == DigitsAmount(t)
        IN  /\ px.prices = <<[key |-> 1, amount |-> amount],
                             [key |-> 3, amount |-> amount]>>
            /\ amount = NoPrice \/ amount >= 0
            /\ t = Text8750 => px.prices[1].amount = 8750
            /\ t = Text12300 => px.prices[1].amount = 12300
            /\ t = TextNoPrice => px.prices[1].amount = NoPrice

\* "kr 12,300" has been parsed, for two keys
C16_Witness ==
    /\ px.done
    /\ px.raw[1][2] = Text12300
    /\ px.prices[1].amount = 12300
    /\ px.prices[2].amount = 12300

(* ---------------------------------------------------------------------- *)
(* C17                                                                     *)
(* ---------------------------------------------------------------------- *)
\* C17: in a cycle whose driver was created, fetching appends exactly one
\* observation per key, in the order of self.urls, and parse_price and the
\* evaluation start only when every key has been processed.
C17_OnePerKey ==
    /\ \A i \in 1 .. Len(flight_data) : flight_data[i][1] = i
    /\ pc \in {"get", "cookie", "select", "record"} =>
          /\ Len(flight_data) = key - 1
          /\ ~ev.evaluated
    /\ pc = "evaluate" => Len(flight_data) = NumKeys
    /\ ev.evaluated => Len(flight_data) = NumKeys

(* ---------------------------------------------------------------------- *)
(* C18                                                                     *)
(* ---------------------------------------------------------------------- *)
\* C18: a text that is recorded for a key was located by a selector while
\* that key was processed; it is never the text of an earlier key, even when
\* every selector of the key times out.
C18_KeyIsolation ==
    JustRecorded /\ Recorded[2] # NoneText => assigned

(* ---------------------------------------------------------------------- *)
(* C19                                                                     *)
(* ---------------------------------------------------------------------- *)
\* C19: whenever bestPriceEverAlerted holds a price, a notification whose
\* payload holds that price was delivered, in this cycle or an earlier one.
C19_AlertNotLost ==
    lowest_price_list # NoPrice => lowest_price_list \in delivered

(* ---------------------------------------------------------------------- *)
(* C20                                                                     *)
(* ---------------------------------------------------------------------- *)
\* C20: every Chrome driver started in a cycle is quit before run() sleeps,
\* on every path of the cycle, so that there is never more than one.
C20_DriverReleased ==
    /\ browsers <= 1
    /\ pc \in {"run", "sleep", "stopped"} => browsers = 0
====
